---- MODULE Spec2Model ----
(***************************************************************************)
(* Report triage engine of the JanConnect backend: the priority scorer,    *)
(* the upvote ledger, the status, feedback and assignment handlers of the  *)
(* Report collection, and createReport with its jurisdiction resolution.   *)
(*                                                                         *)
(* Scores are kept in hundredths (1.5 is 150) and time in hours, so that   *)
(* the arithmetic of calculatePriority is integer arithmetic.              *)
(***************************************************************************)
EXTENDS Integers, Sequences, FiniteSets, TLC

\* ------------------------------------------------------------------ bounds
MaxCount == 52            \* largest upvoteCount given to the scorer
MaxVoteRequests == 4      \* upvote / remove-upvote requests in one behaviour
MaxStatusRequests == 2    \* status-update requests in one behaviour
MaxRequests == 2          \* overlapping requests of any kind in one behaviour

\* --------------------------------------------------------------- constants
None == "none"            \* an unset reference (null / undefined)
NoDate == -1              \* an unset Date or Number field
NoText == <<>>            \* a text that is missing or empty (both falsy)
NoHandle == <<>>          \* the publicId of a medium that is not there
Scale == 100              \* hundredths per score unit
HoursPerDay == 24
Infinity == 2147483647    \* tier5.max

Urgencies == {"low", "medium", "high", "critical"}
\* urgency values a document can hand to the scorer: the enum, a missing
\* value and a value outside the enum
UrgencyInputs == Urgencies \cup {None, "urgent"}
\* report ages (hours) at and around the recency thresholds
AgeSamples == {0, 23, 24, 167, 168, 240}

\* ---------------------------------------------------------- PriorityScorer
urgencyScores ==
  [u \in Urgencies |->
     CASE u = "low" -> 150
       [] u = "medium" -> 250
       [] u = "high" -> 400
       [] u = "critical" -> 500]

\* tier boosts with those of tier2 and tier3 exchanged
upvoteBoostsExchanged ==
  << [min |-> 1,  max |-> 4,        boost |-> 20],
     [min |-> 5,  max |-> 9,        boost |-> 100],
     [min |-> 10, max |-> 19,       boost |-> 50],
     [min |-> 20, max |-> 49,       boost |-> 150],
     [min |-> 50, max |-> Infinity, boost |-> 200] >>

upvoteBoosts ==
  << [min |-> 1,  max |-> 4,        boost |-> 20],
     [min |-> 5,  max |-> 9,        boost |-> 50],
     [min |-> 10, max |-> 19,       boost |-> 100],
     [min |-> 20, max |-> 49,       boost |-> 150],
     [min |-> 50, max |-> Infinity, boost |-> 200] >>

\* urgencyScores[this.urgency] || 2.5
UrgencyScoreOf(urgency) ==
  IF urgency \in DOMAIN urgencyScores THEN urgencyScores[urgency] ELSE 250

\* the for-of loop over the tiers: the first tier that contains the count
RECURSIVE TierBoostFrom(_, _)
TierBoostFrom(i, upvotes) ==
  IF i > Len(upvoteBoosts) THEN 0
  ELSE IF upvotes >= upvoteBoosts[i].min /\ upvotes <= upvoteBoosts[i].max
       THEN upvoteBoosts[i].boost
       ELSE TierBoostFrom(i + 1, upvotes)

CommunityBoostOf(upvotes) == TierBoostFrom(1, upvotes)

\* the recency thresholds tested with <= instead of <
TimeBoostInclusive(ageHours) ==
  IF ageHours <= 1 * HoursPerDay THEN 20
  ELSE IF ageHours <= 7 * HoursPerDay THEN 10 ELSE 0

\* reportAge < 1 ? 0.2 : (reportAge < 7 ? 0.1 : 0), reportAge in days
TimeBoostOf(ageHours) ==
  IF ageHours < 1 * HoursPerDay THEN 20
  ELSE IF ageHours < 7 * HoursPerDay THEN 10 ELSE 0

\* the cap at 5.0 left out
CapScoreLowerOnly(raw) ==
  IF raw < 1 * Scale THEN 1 * Scale ELSE raw

\* if (finalPriority > 5) finalPriority = 5; if (finalPriority < 1) ... = 1
CapScore(raw) ==
  IF raw > 5 * Scale THEN 5 * Scale
  ELSE IF raw < 1 * Scale THEN 1 * Scale ELSE raw

\* Math.round(x): the nearest integer, halves upwards
MathRound(hundredths) == (hundredths + (Scale \div 2)) \div Scale

\* Math.round(x * 10) / 10, in hundredths
RoundToTenth(hundredths) == ((hundredths + 5) \div 10) * 10

calculatePriority(urgency, upvoteCount, ageHours) ==
  LET urgencyScore == UrgencyScoreOf(urgency)
      communityBoost == CommunityBoostOf(upvoteCount)
      timeBoost == TimeBoostOf(ageHours)
      finalPriority == CapScore(urgencyScore + communityBoost + timeBoost)
  IN [priority |-> MathRound(finalPriority),
      urgencyScore |-> urgencyScore,
      communityScore |-> communityBoost,
      finalScore |-> RoundToTenth(finalPriority)]

\* ------------------------------------------------------------------ state
Procs == {1, 2}                       \* requests that can be in flight
ReportIds == {"r1"}
Voters == {"c1", "c2"}
\* the authenticated principals of updateReportStatus (req.user)
Actors ==
  { [id |-> "s1", role |-> "staff", department |-> "d1"],
    [id |-> "s2", role |-> "staff", department |-> "d2"],
    [id |-> "a1", role |-> "admin", department |-> None] }
\* the same with s0, a staff account whose department is unset
\* (req.user.department is undefined)
ActorsAndUnassignedStaff ==
  Actors \cup { [id |-> "s0", role |-> "staff", department |-> None] }
\* two staff accounts of department d1 and an administrator
DepartmentStaff ==
  { [id |-> "s1", role |-> "staff", department |-> "d1"],
    [id |-> "s3", role |-> "staff", department |-> "d1"],
    [id |-> "a1", role |-> "admin", department |-> None] }
\* the instants (hours) the clock passes through
Instants == {0, 24, 168}

\* status enum of reportSchema
StatusEnum ==
  {"pending", "acknowledged", "in-progress", "resolved", "rejected",
   "pending_assignment", "assigned"}
\* validStatuses of updateReportStatus
validStatuses ==
  {"pending", "acknowledged", "in-progress", "resolved", "rejected",
   "pending_assignment"}
\* req.body.status: absent, a status of the enum, or any other string
StatusInputs == StatusEnum \cup {None, "closed"}

VARIABLES
  reports,    \* the Report collection: _id -> stored document
  req,        \* per request slot: the handler in flight and its loaded document
  res,        \* per request slot: the response of its last completed request
  now,        \* Date.now(), in hours
  budget,     \* requests still to arrive in this behaviour
  log,        \* history: the requests received, in order of arrival
  departments, \* the Department collection: id -> reports list and stats
  call,       \* scorer harness: the document fields calculatePriority reads
  ret,        \* scorer harness: the value calculatePriority returned, or <<>>
  prev,       \* scorer harness: the previous call and its result, or <<>>
  media,      \* the media store: the handles (publicId) it holds
  municipalities, \* the Municipality collection: id -> departments list
  out         \* createReport: what its last request was given and answered

storeVars == <<reports, req, res, now, budget, log, departments>>
scoreVars == <<call, ret, prev>>
intakeVars == <<media, out, municipalities>>
vars ==
  <<reports, req, res, now, budget, log, departments, call, ret, prev, media,
    out, municipalities>>

Idle == [op |-> "idle"]

\* category enum of reportSchema
Categories ==
  {"Infrastructure", "Sanitation", "Street Lighting", "Water Supply",
   "Traffic", "Parks", "Other"}

\* rating of a report that has none
NoRating == -1

\* the document Report.create stores for reportData (createReport, with the
\* schema defaults and the pre('save') hook applied at age 0). description
\* tells whether the report has one; voiceMessage, image and resolutionImage
\* are the publicId of the medium: here a report with a description and no
\* media, its reportId still to be filled in.
CreatedReport(category, urgency, municipality, department, reportedBy, t) ==
  LET p == calculatePriority(urgency, 0, 0)
  IN [status |-> IF department = None THEN "pending_assignment" ELSE "assigned",
      urgency |-> urgency,
      upvotes |-> <<>>,
      upvoteCount |-> 0,
      priority |-> p.priority,
      finalScore |-> p.finalScore,
      date |-> t,
      resolvedDate |-> NoDate,
      resolutionTime |-> NoDate,
      department |-> department,
      assignedTo |-> None,
      workCompletedBy |-> None,
      updates |-> <<>>,
      category |-> category,
      municipality |-> municipality,
      assignmentType |-> IF department = None THEN "pending" ELSE "automatic",
      reportedBy |-> reportedBy,
      rating |-> NoRating,
      feedback |-> None,
      reportId |-> NoText,
      description |-> TRUE,
      voiceMessage |-> NoHandle,
      image |-> NoHandle,
      resolutionImage |-> NoHandle]

\* the report the other handlers start from: a Sanitation report of citizen
\* c1 in municipality m1
NewReport(urgency, department, t) ==
  [CreatedReport("Sanitation", urgency, "m1", department, "c1", t)
     EXCEPT !.reportId = <<"S", "A", "N", "I", "-", "0", "0", "1">>]

\* ------------------------------------------------- document load and save
\* reportSchema.pre('save'): recompute the priority from the document's own
\* urgency, upvoteCount and age
PreSave(doc, t) ==
  IF doc.urgency # None /\ doc.date # NoDate
  THEN LET p == calculatePriority(doc.urgency, doc.upvoteCount, t - doc.date)
       IN [doc EXCEPT !.priority = p.priority, !.finalScore = p.finalScore]
  ELSE doc

\* entries appended to an array path since the document was loaded
Pushed(before, after) ==
  IF Len(after) > Len(before)
  THEN SubSeq(after, Len(before) + 1, Len(after)) ELSE <<>>

\* the array path was assigned a different array (not pushed to): Mongoose
\* sends it as a whole and makes the update conditional on the version
ArrayReplaced(snap, local) ==
  Len(local.upvotes) <= Len(snap.upvotes) /\ local.upvotes # snap.upvotes

\* the update increments the document version (__v)
BumpsVersion(snap, local) ==
  \/ Pushed(snap.upvotes, local.upvotes) # <<>>
  \/ Pushed(snap.updates, local.updates) # <<>>
  \/ ArrayReplaced(snap, local)

\* document.save() of a document loaded as snap and changed to local: the
\* update carries only the modified paths. fresh names the paths assigned a
\* new Date-derived value, which always count as modified.
SaveDocument(stored, snap, local, fresh) ==
  [f \in DOMAIN stored |->
     CASE f = "upvotes" ->
            IF Pushed(snap.upvotes, local.upvotes) # <<>>
            THEN stored.upvotes \o Pushed(snap.upvotes, local.upvotes)
            ELSE IF local.upvotes # snap.upvotes THEN local.upvotes
            ELSE stored.upvotes
       [] f = "updates" -> stored.updates \o Pushed(snap.updates, local.updates)
       [] OTHER -> IF f \in fresh \/ local[f] # snap[f]
                   THEN local[f] ELSE stored[f]]

\* a committed update that bumped the version makes every other loaded copy
\* of the document stale
MarkStale(p, r, bumped) ==
  [q \in Procs |->
     IF q # p /\ req[q] # Idle /\ req[q].report = r /\ bumped
     THEN [req[q] EXCEPT !.stale = TRUE]
     ELSE IF q = p THEN Idle ELSE req[q]]

Request(op, r, user, doc) ==
  [op |-> op, report |-> r, user |-> user, status |-> None, message |-> None,
   evidence |-> FALSE, snap |-> doc, stale |-> FALSE]

\* the history keeps what a request asked for, not what it loaded
Logged(request) ==
  IF log.on
  THEN [log EXCEPT !.entries = Append(@, [f \in DOMAIN request \ {"snap", "stale"} |-> request[f]])]
  ELSE log

\* the response sent for a request: serial tells that the request saw the
\* document as it was stored when the response was decided, again that the
\* previous response answered the same call by the same user, both served
\* serially and the first with success
Response(op, user, code, serial) ==
  [op |-> op, user |-> user.id, code |-> code, serial |-> serial,
   again |-> /\ res.op = op /\ res.user = user.id /\ res.code = "ok"
             /\ res.serial /\ serial]

\* the request committing now saw the document as it is stored now
IsSerial(p) ==
  ~req[p].stale /\ req[p].snap = reports[req[p].report]

\* --------------------------------------------------------- UpvoteLedger
HasUpvoted(doc, userId) ==
  \E i \in 1..Len(doc.upvotes) : doc.upvotes[i] = userId

\* reportSchema.methods.addUpvote, up to the call of save()
addUpvote(doc, userId, t) ==
  LET pushed == [doc EXCEPT !.upvotes = Append(@, userId)]
      counted == [pushed EXCEPT !.upvoteCount = Len(pushed.upvotes)]
  IN PreSave(counted, t)

\* removeUpvote counting down instead of taking the length
removeUpvoteDecrement(doc, userId, t) ==
  LET kept == [doc EXCEPT !.upvotes = SelectSeq(@, LAMBDA v : v # userId)]
      counted == [kept EXCEPT !.upvoteCount = @ - 1]
  IN PreSave(counted, t)

\* reportSchema.methods.removeUpvote, up to the call of save()
removeUpvote(doc, userId, t) ==
  LET kept == [doc EXCEPT !.upvotes = SelectSeq(@, LAMBDA v : v # userId)]
      counted == [kept EXCEPT !.upvoteCount = Len(kept.upvotes)]
  IN PreSave(counted, t)

Voter(u) == [id |-> u, role |-> "citizen", department |-> None]

\* upvoteReport: the answer the checks before the save give on a document
UpvoteCheck(doc, u) ==
  IF doc.status = "resolved" THEN "ReportResolved"
  ELSE IF HasUpvoted(doc, u) THEN "AlreadyVoted"
  ELSE "ok"

\* upvoteReport: findOne and the checks before the save
UpvoteLoad(p, r, u) ==
  /\ req[p] = Idle
  /\ budget > 0
  /\ budget' = budget - 1
  /\ r \in DOMAIN reports
  /\ LET doc == reports[r]
         code == UpvoteCheck(doc, u)
     IN IF code # "ok"
        THEN /\ res' = Response("upvoteReport", Voter(u), code, TRUE)
             /\ req' = req
        ELSE /\ req' = [req EXCEPT ![p] = Request("upvoteReport", r, Voter(u), doc)]
             /\ res' = res
  /\ log' = Logged(Request("upvoteReport", r, Voter(u), reports[r]))
  /\ UNCHANGED <<reports, now, departments, scoreVars, intakeVars>>

\* upvoteReport: the save issued by addUpvote reaches the store
UpvoteSave(p) ==
  /\ req[p] # Idle
  /\ req[p].op = "upvoteReport"
  /\ LET r == req[p].report
         snap == req[p].snap
         local == addUpvote(snap, req[p].user.id, now)
     IN /\ reports' = [reports EXCEPT ![r] = SaveDocument(@, snap, local, {})]
        /\ req' = MarkStale(p, r, BumpsVersion(snap, local))
        /\ res' = Response("upvoteReport", req[p].user, "ok", IsSerial(p))
  /\ UNCHANGED <<now, budget, log, departments, scoreVars, intakeVars>>

\* removeUpvote: findOne
RemoveLoad(p, r, u) ==
  /\ req[p] = Idle
  /\ budget > 0
  /\ budget' = budget - 1
  /\ r \in DOMAIN reports
  /\ req' = [req EXCEPT ![p] = Request("removeUpvote", r, Voter(u), reports[r])]
  /\ log' = Logged(Request("removeUpvote", r, Voter(u), reports[r]))
  /\ UNCHANGED <<reports, res, now, departments, scoreVars, intakeVars>>

\* removeUpvote: the save issued by the model method reaches the store; a
\* version conflict rejects it and the handler answers 500
RemoveSave(p) ==
  /\ req[p] # Idle
  /\ req[p].op = "removeUpvote"
  /\ LET r == req[p].report
         snap == req[p].snap
         local == removeUpvote(snap, req[p].user.id, now)
     IN IF ArrayReplaced(snap, local) /\ req[p].stale
        THEN /\ reports' = reports
             /\ req' = [req EXCEPT ![p] = Idle]
             /\ res' = Response("removeUpvote", req[p].user, "ServerError", FALSE)
        ELSE /\ reports' = [reports EXCEPT ![r] = SaveDocument(@, snap, local, {})]
             /\ req' = MarkStale(p, r, BumpsVersion(snap, local))
             /\ res' = Response("removeUpvote", req[p].user, "ok", IsSerial(p))
  /\ UNCHANGED <<now, budget, log, departments, scoreVars, intakeVars>>

\* ------------------------------------------------------- ReportLifecycle
MaxUpdates == 1           \* entries of report.updates the model follows

\* updateReportStatus, from "Update report status" to the call of save()
ApplyStatusUpdate(doc, user, status, message, evidence, t) ==
  LET s1 == IF status # None THEN [doc EXCEPT !.status = status] ELSE doc
      s2 == IF status = "resolved"
            THEN [s1 EXCEPT !.resolvedDate = t,
                            !.resolutionTime = t - doc.date,
                            !.workCompletedBy =
                               IF evidence THEN user.id ELSE @]
            ELSE s1
      s3 == IF message # None
            THEN [s2 EXCEPT !.updates = Append(@, [updatedBy |-> user.id])]
            ELSE s2
      s4 == IF s3.assignedTo = None /\ user.role = "staff"
            THEN [s3 EXCEPT !.assignedTo = user.id] ELSE s3
  IN PreSave(s4, t)

\* the paths updateReportStatus assigns a new Date-derived value
FreshPaths(status, evidence) ==
  IF status = "resolved"
  THEN {"resolvedDate", "resolutionTime"}
         \cup (IF evidence THEN {"workCompletedBy"} ELSE {})
  ELSE {}

\* updateReportStatus: the answer of the permission check and of the
\* status check on a document
StatusCheck(doc, user, status) ==
  IF user.role = "staff" /\ doc.department # user.department THEN "Forbidden"
  ELSE IF status # None /\ status \notin validStatuses THEN "InvalidStatus"
  ELSE "ok"

\* updateReportStatus: findOne, the permission check and the status check
StatusLoad(p, r, user, status, message, evidence) ==
  /\ req[p] = Idle
  /\ budget > 0
  /\ budget' = budget - 1
  /\ r \in DOMAIN reports
  /\ message # None => Len(reports[r].updates) < MaxUpdates
  /\ LET doc == reports[r]
         code == StatusCheck(doc, user, status)
         request == [Request("updateReportStatus", r, user, doc)
                       EXCEPT !.status = status, !.message = message,
                              !.evidence = (evidence /\ status = "resolved")]
     IN /\ IF code # "ok"
           THEN /\ res' = Response("updateReportStatus", user, code, TRUE)
                /\ req' = req
           ELSE /\ req' = [req EXCEPT ![p] = request]
                /\ res' = res
        /\ log' = Logged(request)
  /\ UNCHANGED <<reports, now, departments, scoreVars, intakeVars>>

\* updateReportStatus: report.save() reaches the store
StatusSave(p) ==
  /\ req[p] # Idle
  /\ req[p].op = "updateReportStatus"
  /\ LET r == req[p].report
         snap == req[p].snap
         local == ApplyStatusUpdate(snap, req[p].user, req[p].status,
                                    req[p].message, req[p].evidence, now)
         fresh == FreshPaths(req[p].status, req[p].evidence)
     IN /\ reports' = [reports EXCEPT ![r] = SaveDocument(@, snap, local, fresh)]
        /\ req' = MarkStale(p, r, BumpsVersion(snap, local))
        /\ res' = Response("updateReportStatus", req[p].user, "ok", IsSerial(p))
  /\ UNCHANGED <<now, budget, log, departments, scoreVars, intakeVars>>

\* ------------------------------------------------------------- addFeedback
MaxFeedbackRequests == 2  \* feedback and status requests in one behaviour

\* req.body.rating: absent, or a number in or around the range 1..5
RatingInputs == {NoRating, 0, 1, 3, 5, 6}
\* req.body.feedback: absent, the empty text or a text
FeedbackInputs == {None, "", "thanks"}

\* if (rating), if (feedback): absent, 0 and the empty text are falsy
RatingGiven(rating) == rating # NoRating /\ rating # 0
FeedbackGiven(feedback) == feedback # None /\ feedback # ""

\* addFeedback: the answer of the checks before any assignment
FeedbackCheck(doc, userId, rating) ==
  IF doc.reportedBy # userId THEN "Forbidden"
  ELSE IF doc.status # "resolved" THEN "NotResolved"
  ELSE IF RatingGiven(rating) /\ (rating < 1 \/ rating > 5) THEN "BadRating"
  ELSE "ok"

\* addFeedback, from the assignments to report.save() reaching the store:
\* the document as stored afterwards, snap being the loaded copy and doc the
\* stored document
ApplyFeedback(snap, doc, rating, feedback, t) ==
  LET s1 == IF RatingGiven(rating) THEN [snap EXCEPT !.rating = rating]
            ELSE snap
      s2 == IF FeedbackGiven(feedback) THEN [s1 EXCEPT !.feedback = feedback]
            ELSE s1
  IN SaveDocument(doc, snap, PreSave(s2, t), {})

\* addFeedback: findOne and the checks
FeedbackLoad(p, r, u, rating, feedback) ==
  /\ req[p] = Idle
  /\ budget > 0
  /\ budget' = budget - 1
  /\ r \in DOMAIN reports
  /\ LET doc == reports[r]
         code == FeedbackCheck(doc, u, rating)
         request == [op |-> "addFeedback", report |-> r, user |-> Voter(u),
                     rating |-> rating, feedback |-> feedback, snap |-> doc,
                     stale |-> FALSE]
     IN /\ IF code # "ok"
           THEN /\ res' = Response("addFeedback", Voter(u), code, TRUE)
                /\ req' = req
           ELSE /\ req' = [req EXCEPT ![p] = request]
                /\ res' = res
        /\ log' = Logged(request)
  /\ UNCHANGED <<reports, now, departments, scoreVars, intakeVars>>

\* addFeedback: report.save() reaches the store
FeedbackSave(p) ==
  /\ req[p] # Idle
  /\ req[p].op = "addFeedback"
  /\ LET r == req[p].report
     IN /\ reports' = [reports EXCEPT
                         ![r] = ApplyFeedback(req[p].snap, @, req[p].rating,
                                              req[p].feedback, now)]
        /\ req' = MarkStale(p, r, FALSE)
        /\ res' = Response("addFeedback", req[p].user, "ok", IsSerial(p))
  /\ UNCHANGED <<now, budget, log, departments, scoreVars, intakeVars>>

\* the Admin collection: userId -> admin record
Admins ==
  [a \in {"a1", "a2"} |->
     [permissions |-> IF a = "a1" THEN {"bulk_operations", "manage_reports"}
                      ELSE {"manage_reports"},
      systemRole |-> "municipal_admin"]]

\* adminSchema.methods.hasPermission
hasPermission(admin, permission) ==
  permission \in admin.permissions \/ admin.systemRole = "super_admin"

\* bulkUpdateReports, served without another request in between:
\* Report.updateMany with the update object, then, when a message is given,
\* find, push to updates and save for each report named. The admin's
\* activity log is not followed.
bulkUpdateReports(userId, reportIds, status, message, assignedTo) ==
  /\ budget > 0
  /\ budget' = budget - 1
  /\ \A r \in reportIds \cap DOMAIN reports :
       message # None => Len(reports[r].updates) < MaxUpdates
  /\ LET user == [id |-> userId, role |-> "admin", department |-> None]
         code == IF reportIds = {} THEN "BadRequest"
                 ELSE IF userId \notin DOMAIN Admins
                         \/ ~hasPermission(Admins[userId], "bulk_operations")
                 THEN "Forbidden"
                 ELSE IF status # None /\ status \notin validStatuses
                 THEN "InvalidStatus"
                 ELSE "ok"
         updated(doc) ==
           LET s1 == IF status # None THEN [doc EXCEPT !.status = status]
                     ELSE doc
               s2 == IF status = "resolved"
                     THEN [s1 EXCEPT !.resolvedDate = now] ELSE s1
           IN IF assignedTo # None THEN [s2 EXCEPT !.assignedTo = assignedTo]
              ELSE s2
         noted(doc) ==
           IF message = None THEN doc
           ELSE PreSave([doc EXCEPT !.updates =
                                      Append(@, [updatedBy |-> userId])], now)
     IN /\ res' = Response("bulkUpdateReports", user, code, TRUE)
        /\ reports' = IF code # "ok" THEN reports
                      ELSE [r \in DOMAIN reports |->
                              IF r \in reportIds THEN noted(updated(reports[r]))
                              ELSE reports[r]]
  /\ UNCHANGED <<req, now, log, departments, scoreVars, intakeVars>>

\* ------------------------------------------------------------ Department
MaxDeptReports == 1       \* entries of department.reports the model follows
MaxDeptRequests == 3      \* department-level status requests in one behaviour

\* the Department collection: d1 serves municipality m1, d3 municipality m2
\* (its categories list "Other", which the schema of the collection allows)
NewDepartments ==
  [d \in {"d1", "d3"} |->
     [municipality |-> IF d = "d1" THEN "m1" ELSE "m2",
      categories |-> IF d = "d1" THEN {"Sanitation", "Traffic"}
                     ELSE {"Parks", "Other"},
      staffMembers |-> IF d = "d1"
                       THEN {[userId |-> "s1", isActive |-> TRUE],
                             [userId |-> "s2", isActive |-> FALSE]}
                       ELSE {},
      reports |-> <<>>,
      stats |-> [totalReports |-> 0, pendingReports |-> 0,
                 inProgressReports |-> 0, completedReports |-> 0]]]

\* departmentSchema.statics.manualAssign
manualAssign(r, departmentId, staffId) ==
  /\ departmentId \in DOMAIN departments
  /\ Len(departments[departmentId].reports) < MaxDeptReports
  /\ departments' =
       [departments EXCEPT
          ![departmentId].reports =
             Append(@, [reportId |-> r, assignmentType |-> "manual",
                        assignedTo |-> staffId]),
          ![departmentId].stats.totalReports = @ + 1,
          ![departmentId].stats.pendingReports = @ + 1]
  /\ UNCHANGED <<reports, req, res, now, budget, log, scoreVars, intakeVars>>

\* departmentSchema.statics.autoAssignByCategory: the department findOne
\* returns for { municipality, categories: category } gets the report
autoAssignByCategory(r, category, municipalityId) ==
  LET matching == {d \in DOMAIN departments :
                     /\ departments[d].municipality = municipalityId
                     /\ category \in departments[d].categories}
  IN /\ category # "Other"
     /\ matching # {}
     /\ \E departmentId \in matching :
          /\ Len(departments[departmentId].reports) < MaxDeptReports
          /\ departments' =
               [departments EXCEPT
                  ![departmentId].reports =
                     Append(@, [reportId |-> r, assignmentType |-> "automatic",
                                assignedTo |-> None]),
                  ![departmentId].stats.totalReports = @ + 1,
                  ![departmentId].stats.pendingReports = @ + 1]
     /\ UNCHANGED <<reports, req, res, now, budget, log, scoreVars, intakeVars>>

\* assignReportToStaff, served without another request in between: the
\* department's entry of the report gets the staff member, then
\* Report.findByIdAndUpdate(reportId, { assignedTo, status: "assigned" }).
\* The staff performance statistics are not followed.
assignReportToStaff(departmentId, r, staffId) ==
  /\ budget > 0
  /\ budget' = budget - 1
  /\ LET user == [id |-> None, role |-> "admin", department |-> departmentId]
         found == departmentId \in DOMAIN departments
         listed == found /\ \E i \in 1..Len(departments[departmentId].reports) :
                     departments[departmentId].reports[i].reportId = r
         staffed == found /\ \E m \in departments[departmentId].staffMembers :
                      m.userId = staffId /\ m.isActive
         code == IF ~found \/ ~listed \/ ~staffed THEN "NotFound" ELSE "ok"
         reportIndex == CHOOSE i \in 1..Len(departments[departmentId].reports) :
                          /\ departments[departmentId].reports[i].reportId = r
                          /\ \A j \in 1..(i - 1) :
                               departments[departmentId].reports[j].reportId # r
     IN /\ res' = Response("assignReportToStaff", user, code, TRUE)
        /\ departments' =
             IF code # "ok" THEN departments
             ELSE [departments EXCEPT
                     ![departmentId].reports[reportIndex].assignedTo = staffId]
        /\ reports' =
             IF code = "ok" /\ r \in DOMAIN reports
             THEN [reports EXCEPT ![r].assignedTo = staffId,
                                  ![r].status = "assigned"]
             ELSE reports
  /\ UNCHANGED <<req, now, log, scoreVars, intakeVars>>

\* departmentSchema.methods.updateReportStatus: the stats after the call
DeptStatsAfter(stats, newStatus) ==
  LET s1 == IF newStatus = "completed"
            THEN [stats EXCEPT !.pendingReports = @ - 1,
                               !.completedReports = @ + 1]
            ELSE stats
  IN IF newStatus = "in_progress"
     THEN [s1 EXCEPT !.pendingReports = @ - 1, !.inProgressReports = @ + 1]
     ELSE s1

\* req.body.status of the department-level handler
DeptStatusInputs == {"completed", "in_progress", "in-progress", "resolved"}

\* the department-level updateReportStatus, served without another request
\* in between: the model method on the department, then
\* Report.findByIdAndUpdate(reportId, { status })
DeptUpdateReportStatus(departmentId, r, status) ==
  /\ budget > 0
  /\ budget' = budget - 1
  /\ LET user == [id |-> None, role |-> "staff", department |-> departmentId]
         found == departmentId \in DOMAIN departments
         listed == found /\ \E i \in 1..Len(departments[departmentId].reports) :
                     departments[departmentId].reports[i].reportId = r
         code == IF ~found THEN "NotFound"
                 ELSE IF ~listed THEN "ServerError" ELSE "ok"
     IN /\ res' = Response("departmentUpdateReportStatus", user, code, TRUE)
        /\ departments' =
             IF code # "ok" THEN departments
             ELSE [departments EXCEPT ![departmentId].stats =
                                         DeptStatsAfter(@, status)]
        /\ reports' =
             IF code = "ok" /\ r \in DOMAIN reports
             THEN [reports EXCEPT ![r].status = status]
             ELSE reports
  /\ UNCHANGED <<req, now, log, scoreVars, intakeVars>>

\* ------------------------------------------------------------ createReport
MaxCreateRequests == 2    \* createReport requests in one behaviour

MaxDistance == 20000      \* $maxDistance of findNearestMunicipality, metres
NoPoint == -1             \* location.coordinates missing from the request

\* the Municipality collection. Locations are points of a line, in metres;
\* texts are sequences of characters.
Municipalities ==
  [m \in {"m1", "m2"} |->
     IF m = "m1"
     THEN [location |-> 0, district |-> <<"P", "u", "n", "e">>]
     ELSE [location |-> 30000,
           district |-> <<"O", "l", "d", " ", "P", "u", "n", "e">>]]

\* the Municipality documents as stored: the departments each one lists
NewMunicipalities ==
  [m \in DOMAIN Municipalities |->
     [departments |-> IF m = "m1" THEN {"d1"} ELSE {"d3"}]]

\* longitudes of the requests followed, and NoPoint for no coordinates
PointInputs == {NoPoint, 10000, 15000, 50000, 50001, 90000}

\* Coordinates are measured in metres of arc along the equator (longitude)
\* and along a meridian (latitude): 180 and 90 degrees are
MaxLongitude == 20037508
MaxLatitude == 10018754
\* the Number value NaN
NaN == -2147483647

\* an element of location.coordinates: a Number, or a String holding a
\* numeral, a numeral followed by letters, the word Infinity or other letters
Number(v) == [kind |-> "number", value |-> v]
Letters == [kind |-> "letters", value |-> 0]

\* parseFloat
parseFloat(coord) ==
  CASE coord.kind \in {"number", "numeral", "numeral then letters"} -> coord.value
    [] coord.kind = "infinity" -> Infinity
    [] OTHER -> NaN

isNaN(v) == v = NaN

\* location.coordinates as received: missing, an Array, a String that is the
\* JSON of an array, of something else, or no JSON, or another value
NoCoordinates == [form |-> "missing", elements |-> <<>>]
OnEquator(point) ==
  IF point = NoPoint THEN NoCoordinates
  ELSE [form |-> "array", elements |-> <<Number(point), Number(0)>>]

\* location.coordinates of the requests followed that are not two Numbers
\* within the bounds
CoordinateInputs ==
  {[form |-> f, elements |-> <<>>] : f \in {"not json", "json other", "other"}}
    \cup {[form |-> "array", elements |-> e] :
            e \in {<<Number(10000)>>,
                    <<Number(10000), Number(0), Number(0)>>,
                    <<Letters, Number(0)>>,
                    <<Number(10000), [kind |-> "infinity", value |-> 0]>>,
                    <<[kind |-> "numeral then letters", value |-> 10000],
                      Number(0)>>,
                    <<Number(MaxLongitude + 1), Number(0)>>,
                    <<Number(10000), Number(-MaxLatitude - 1)>>}}
    \cup {[form |-> "json array",
           elements |-> <<[kind |-> "numeral", value |-> 10000], Number(0)>>]}

\* createReport, "Parse and validate location coordinates": BadRequest, or
\* the longitude and latitude put into location.coordinates
ParsedCoordinates(coordinates) ==
  LET refused == [code |-> "BadRequest", longitude |-> NoPoint, latitude |-> NoPoint]
      isArray == coordinates.form \in {"array", "json array"}
  IN IF coordinates.form \in {"missing", "not json"} THEN refused
     ELSE IF ~isArray \/ Len(coordinates.elements) # 2 THEN refused
     ELSE LET longitude == parseFloat(coordinates.elements[1])
              latitude == parseFloat(coordinates.elements[2])
          IN IF isNaN(longitude) \/ isNaN(latitude) THEN refused
             ELSE [code |-> "ok", longitude |-> longitude, latitude |-> latitude]

\* the $near query and the 2dsphere index take a point only within the
\* bounds of longitude and latitude; the query fails for any other
ValidGeoPoint(longitude, latitude) ==
  /\ -MaxLongitude <= longitude /\ longitude <= MaxLongitude
  /\ -MaxLatitude <= latitude /\ latitude <= MaxLatitude

\* req.body.category of the requests followed: absent, in the enum (listed
\* by some department or by none), or outside the enum
CategoryInputs == {None, "Other", "Sanitation", "Traffic", "Parks", "Noise"}

Distance(a, b) == IF a > b THEN a - b ELSE b - a

\* findNearestMunicipality: the documents $near can return first, none when
\* no municipality lies within $maxDistance
findNearestMunicipality(point) ==
  LET within == {m \in DOMAIN municipalities :
                   Distance(Municipalities[m].location, point) <= MaxDistance}
  IN {m \in within :
        \A o \in within : Distance(Municipalities[m].location, point)
                            <= Distance(Municipalities[o].location, point)}

\* what the geocoding service can answer: no API key configured, a network
\* error, a timeout, no results, or a first result with its components
NoReply ==
  [kind |-> "none", state_district |-> NoText, county |-> NoText,
   district |-> NoText]

GeocoderReplies ==
  {[NoReply EXCEPT !.kind = k] : k \in {"nokey", "error", "timeout", "empty"}}
    \cup {[kind |-> "results", state_district |-> a, county |-> b,
           district |-> c] :
            a \in {NoText, <<"P", "U", "N", "E">>},
            b \in {NoText, <<"o", "l", "d">>},
            c \in {NoText, <<"G", "o", "a">>}}

\* reverseGeocode that lets the error of the HTTP call escape
reverseGeocodeRethrows(reply) ==
  IF reply.kind \in {"error", "timeout"}
  THEN [thrown |-> TRUE, district |-> NoText]
  ELSE IF reply.kind = "results"
  THEN [thrown |-> FALSE,
        district |-> IF reply.state_district # NoText THEN reply.state_district
                     ELSE IF reply.county # NoText THEN reply.county
                     ELSE reply.district]
  ELSE [thrown |-> FALSE, district |-> NoText]

\* reverseGeocode: the district of the first result, nothing when the key is
\* missing, when there is no result and when the call fails (the catch
\* returns null)
reverseGeocode(reply) ==
  IF reply.kind = "nokey" THEN [thrown |-> FALSE, district |-> NoText]
  ELSE IF reply.kind = "results"
  THEN [thrown |-> FALSE,
        district |-> IF reply.state_district # NoText THEN reply.state_district
                     ELSE IF reply.county # NoText THEN reply.county
                     ELSE reply.district]
  ELSE [thrown |-> FALSE, district |-> NoText]

\* the letters that have a lower case in the texts followed
LowerCase ==
  [c \in {"P", "U", "N", "E", "O", "G", "A", "L", "D"} |->
     CASE c = "P" -> "p" [] c = "U" -> "u" [] c = "N" -> "n" [] c = "E" -> "e"
       [] c = "O" -> "o" [] c = "G" -> "g" [] c = "A" -> "a" [] c = "L" -> "l"
       [] c = "D" -> "d"]

ToLower(c) == IF c \in DOMAIN LowerCase THEN LowerCase[c] ELSE c

\* { $regex: new RegExp(pattern, 'i') } on a text, for a pattern of letters
\* and spaces: the pattern occurs in the text, whatever the case
RegExpTestExact(text, pattern) ==
  /\ Len(text) = Len(pattern)
  /\ \A j \in 1..Len(pattern) : text[j] = pattern[j]

RegExpTest(text, pattern) ==
  \E i \in 1..(Len(text) - Len(pattern) + 1) :
    \A j \in 1..Len(pattern) : ToLower(text[i + j - 1]) = ToLower(pattern[j])

\* findMunicipalityByDistrict: the documents findOne can return
findMunicipalityByDistrict(districtName) ==
  IF districtName = NoText THEN {}
  ELSE {m \in DOMAIN municipalities :
          RegExpTest(Municipalities[m].district, districtName)}

\* the category names as texts
CategoryLetters ==
  [c \in (CategoryInputs \ {None}) \cup Categories |->
     CASE c = "Infrastructure" ->
            <<"I", "n", "f", "r", "a", "s", "t", "r", "u", "c", "t", "u", "r", "e">>
       [] c = "Sanitation" -> <<"S", "a", "n", "i", "t", "a", "t", "i", "o", "n">>
       [] c = "Street Lighting" ->
            <<"S", "t", "r", "e", "e", "t", " ", "L", "i", "g", "h", "t", "i", "n", "g">>
       [] c = "Water Supply" ->
            <<"W", "a", "t", "e", "r", " ", "S", "u", "p", "p", "l", "y">>
       [] c = "Traffic" -> <<"T", "r", "a", "f", "f", "i", "c">>
       [] c = "Parks" -> <<"P", "a", "r", "k", "s">>
       [] c = "Other" -> <<"O", "t", "h", "e", "r">>
       [] c = "Noise" -> <<"N", "o", "i", "s", "e">>]

\* the letters that have an upper case in the texts followed
UpperCase ==
  [c \in {"a", "e", "f", "h", "i", "k", "n", "o", "r", "s", "t"} |->
     CASE c = "a" -> "A" [] c = "e" -> "E" [] c = "f" -> "F" [] c = "h" -> "H"
       [] c = "i" -> "I" [] c = "k" -> "K" [] c = "n" -> "N" [] c = "o" -> "O"
       [] c = "r" -> "R" [] c = "s" -> "S" [] c = "t" -> "T"]

ToUpper(c) == IF c \in DOMAIN UpperCase THEN UpperCase[c] ELSE c

\* String(n) of a natural number
DigitChars == <<"0", "1", "2", "3", "4", "5", "6", "7", "8", "9">>

RECURSIVE StringOf(_)
StringOf(n) ==
  IF n < 10 THEN <<DigitChars[n + 1]>>
  ELSE StringOf(n \div 10) \o <<DigitChars[(n % 10) + 1]>>

\* String.prototype.padStart
RECURSIVE padStart(_, _, _)
padStart(text, targetLength, fill) ==
  IF Len(text) >= targetLength THEN text
  ELSE padStart(<<fill>> \o text, targetLength, fill)

\* the _id Report.create gives the document of the n-th request
ObjectIds == <<"o1", "o2", "o3", "o4", "o5">>

\* generateReportId: category.substring(0, 4).toUpperCase(), a hyphen and
\* String(count + 1).padStart(3, '0'), count the stored reports of the category
generateReportId(category) ==
  LET letters == CategoryLetters[category]
      head == SubSeq(letters, 1, IF Len(letters) < 4 THEN Len(letters) ELSE 4)
      categoryCode == [i \in 1..Len(head) |-> ToUpper(head[i])]
      count == Cardinality({r \in DOMAIN reports :
                              reports[r].category = category})
  IN categoryCode \o <<"-">> \o padStart(StringOf(count + 1), 3, "0")

\* the unique index on reportId with no effect
DuplicateKeyNever(reportId) == FALSE

\* the unique index on reportId: an insert with a stored reportId is refused
DuplicateKey(reportId) ==
  \E r \in DOMAIN reports : reports[r].reportId = reportId

\* description with required: false
DescriptionNeverRequired(voiceMessage) == FALSE

\* reportSchema description.required: unless the report has a voice message
DescriptionRequired(voiceMessage) == voiceMessage = NoHandle

\* Department.findOne({ municipality, categories: { $in: [category] } }) with
\* the Other guard dropped
RoutedDepartmentsAnyCategory(municipality, category) ==
  {d \in DOMAIN departments :
     /\ departments[d].municipality = municipality
     /\ category \in departments[d].categories}

\* createReport, the auto-assign block: the departments findOne can return,
\* none for category Other
RoutedDepartments(municipality, category) ==
  IF category # "Other"
  THEN {d \in DOMAIN departments :
          /\ departments[d].municipality = municipality
          /\ category \in departments[d].categories}
  ELSE {}

\* what a createReport request was given and how it was answered
Outcome(n, code, category, point) ==
  [n |-> n, code |-> code, category |-> category, point |-> point,
   geocoded |-> FALSE, reply |-> NoReply, method |-> None,
   municipality |-> None, report |-> None, uploaded |-> {},
   coordinates |-> NoCoordinates]

\* createReport, the catch block: each uploaded medium is deleted from the
\* media store, a delete that fails is logged and passed over, and the
\* error is thrown on
CreateFails(o, handles) ==
  /\ \E destroyed \in SUBSET handles : media' = media \cup (handles \ destroyed)
  /\ out' = [o EXCEPT !.uploaded = handles]
  /\ reports' = reports
  /\ municipalities' = municipalities

\* createReport from reportData to the response, for the municipality
\* selected: the auto-assign block and Report.create, whose validation or
\* unique index can refuse the document
CreateStores(o, userId, urgency, description, uploadedOk, handles) ==
  LET category == o.category
      reportId == generateReportId(category)
      routed == RoutedDepartments(o.municipality, category)
      voice == IF "voiceMessage" \in uploadedOk
               THEN <<o.n, "voiceMessage">> ELSE NoHandle
      image == IF "image" \in uploadedOk THEN <<o.n, "image">> ELSE NoHandle
      invalid == \/ category \notin Categories
                 \/ urgency \notin Urgencies \cup {None}
                 \/ (~description /\ DescriptionRequired(voice))
                 \/ DuplicateKey(reportId)
  IN IF invalid
     THEN CreateFails([o EXCEPT !.code = "ServerError"], handles)
     ELSE \E d \in (IF routed = {} THEN {None} ELSE routed) :
            /\ reports' =
                 reports @@
                   (ObjectIds[o.n] :>
                      [CreatedReport(category,
                                     IF urgency = None THEN "medium" ELSE urgency,
                                     o.municipality, d, userId, now)
                         EXCEPT !.reportId = reportId,
                                !.description = description,
                                !.voiceMessage = voice,
                                !.image = image])
            /\ media' = media \cup handles
            /\ municipalities' = municipalities
            /\ out' = [o EXCEPT !.code = "created", !.report = ObjectIds[o.n],
                                !.uploaded = handles]

\* createReport, served without another request in between
createReport(userId, title, category, urgency, description, files, coordinates) ==
  /\ budget > 0
  /\ budget' = budget - 1
  /\ LET n == out.n + 1
         parsed == ParsedCoordinates(coordinates)
         point == parsed.longitude
         o == [Outcome(n, "BadRequest", category, point)
                 EXCEPT !.coordinates = coordinates]
     IN IF \/ ~title
           \/ category = None
           \/ (~description /\ "voiceMessage" \notin files)
           \/ parsed.code = "BadRequest"
        THEN /\ out' = o
             /\ UNCHANGED <<reports, media, municipalities>>
        ELSE \E uploadedOk \in SUBSET files :
               LET handles == {<<n, f>> : f \in uploadedOk}
                   near == findNearestMunicipality(point)
               IN IF ~ValidGeoPoint(parsed.longitude, parsed.latitude)
                  THEN CreateFails([o EXCEPT !.code = "ServerError"], handles)
                  ELSE IF near # {}
                  THEN \E m \in near :
                         CreateStores([o EXCEPT !.method = "nearest",
                                                !.municipality = m],
                                      userId, urgency, description,
                                      uploadedOk, handles)
                  ELSE \E reply \in GeocoderReplies :
                         LET g == reverseGeocode(reply)
                             asked == [o EXCEPT !.geocoded = TRUE,
                                                !.reply = reply]
                             found == findMunicipalityByDistrict(g.district)
                         IN IF g.thrown
                            THEN CreateFails([asked EXCEPT !.code = "ServerError"],
                                             handles)
                            ELSE IF g.district = NoText
                            THEN CreateFails(
                                   [asked EXCEPT !.code = "NoJurisdictionFound",
                                                 !.method = "nearest"],
                                   handles)
                            ELSE IF found = {}
                            THEN CreateFails(
                                   [asked EXCEPT !.code = "NoJurisdictionFound",
                                                 !.method = "district-based"],
                                   handles)
                            ELSE \E m \in found :
                                   CreateStores(
                                     [asked EXCEPT !.method = "district-based",
                                                   !.municipality = m],
                                     userId, urgency, description, uploadedOk,
                                     handles)
  /\ UNCHANGED <<req, res, now, log, departments, scoreVars>>

\* ------------------------------------------- createReport, step by step
MaxIntakeRequests == 3    \* create and delete requests in one behaviour

\* the number of the request arriving now
Arriving == MaxIntakeRequests - budget + 1

\* createReport up to the call of generateReportId: the validation of the
\* body, and the reportId counted from the reports stored at this moment
CreateStart(p, userId, title, category, urgency, description, files, coordinates) ==
  /\ req[p] = Idle
  /\ budget > 0
  /\ budget' = budget - 1
  /\ LET n == Arriving
         parsed == ParsedCoordinates(coordinates)
     IN IF \/ ~title
           \/ category = None
           \/ (~description /\ "voiceMessage" \notin files)
           \/ parsed.code = "BadRequest"
        THEN /\ out' = [Outcome(n, "BadRequest", category, parsed.longitude)
                          EXCEPT !.coordinates = coordinates]
             /\ req' = req
        ELSE /\ req' = [req EXCEPT ![p] =
                          [op |-> "createReport", step |-> "resolve", n |-> n,
                           userId |-> userId, category |-> category,
                           urgency |-> urgency, description |-> description,
                           files |-> files, coordinates |-> coordinates,
                           longitude |-> parsed.longitude,
                           latitude |-> parsed.latitude,
                           reportId |-> generateReportId(category),
                           method |-> None, municipality |-> None,
                           department |-> None, uploadedOk |-> {}]]
             /\ out' = out
  /\ UNCHANGED <<reports, res, now, log, departments, scoreVars, media, municipalities>>

\* the media this request has uploaded
HandlesOf(request) == {<<request.n, f>> : f \in request.uploadedOk}

\* what a step-by-step createReport request answers
OutcomeOf(request, code) ==
  [Outcome(request.n, code, request.category, request.longitude)
     EXCEPT !.coordinates = request.coordinates, !.method = request.method,
            !.municipality = request.municipality,
            !.uploaded = HandlesOf(request)]

\* createReport, the catch block, for a request in flight: the media it
\* uploaded are deleted from the media store, each deletion can fail
CreateAborts(p, request, code) ==
  /\ \E destroyed \in SUBSET HandlesOf(request) :
       media' = (media \cup HandlesOf(request)) \ destroyed
  /\ out' = OutcomeOf(request, code)
  /\ req' = [req EXCEPT ![p] = Idle]
  /\ reports' = reports

\* createReport from the uploads to the department lookup: the media are
\* uploaded, the municipality is resolved from the municipalities stored at
\* this moment and the department from the departments stored at this moment
CreateResolve(p) ==
  /\ req[p] # Idle
  /\ req[p].op = "createReport"
  /\ req[p].step = "resolve"
  /\ \E uploadedOk \in SUBSET req[p].files :
       LET request == [req[p] EXCEPT !.uploadedOk = uploadedOk]
           near == findNearestMunicipality(request.longitude)
           selected(m, method) ==
             \E d \in (IF RoutedDepartments(m, request.category) = {}
                       THEN {None} ELSE RoutedDepartments(m, request.category)) :
               /\ req' = [req EXCEPT ![p] =
                            [request EXCEPT !.step = "create", !.method = method,
                                            !.municipality = m, !.department = d]]
               /\ media' = media \cup HandlesOf(request)
               /\ UNCHANGED <<out, reports>>
       IN IF ~ValidGeoPoint(request.longitude, request.latitude)
          THEN CreateAborts(p, request, "ServerError")
          ELSE IF near # {}
          THEN \E m \in near : selected(m, "nearest")
          ELSE \E reply \in GeocoderReplies :
                 LET g == reverseGeocode(reply)
                     found == findMunicipalityByDistrict(g.district)
                 IN IF g.thrown
                    THEN CreateAborts(p, request, "ServerError")
                    ELSE IF g.district = NoText \/ found = {}
                    THEN CreateAborts(p, request, "NoJurisdictionFound")
                    ELSE \E m \in found : selected(m, "district-based")
  /\ UNCHANGED <<res, now, budget, log, departments, scoreVars, municipalities>>

\* createReport, Report.create and the response: the schema validation and
\* the unique index on reportId can refuse the document
CreateCommit(p) ==
  /\ req[p] # Idle
  /\ req[p].op = "createReport"
  /\ req[p].step = "create"
  /\ LET request == req[p]
         voice == IF "voiceMessage" \in request.uploadedOk
                  THEN <<request.n, "voiceMessage">> ELSE NoHandle
         image == IF "image" \in request.uploadedOk
                  THEN <<request.n, "image">> ELSE NoHandle
         invalid == \/ request.category \notin Categories
                    \/ request.urgency \notin Urgencies \cup {None}
                    \/ (~request.description /\ DescriptionRequired(voice))
                    \/ DuplicateKey(request.reportId)
     IN IF invalid
        THEN CreateAborts(p, request, "ServerError")
        ELSE /\ reports' =
                  reports @@
                    (ObjectIds[request.n] :>
                       [CreatedReport(request.category,
                                      IF request.urgency = None THEN "medium"
                                      ELSE request.urgency,
                                      request.municipality, request.department,
                                      request.userId, now)
                          EXCEPT !.reportId = request.reportId,
                                 !.description = request.description,
                                 !.voiceMessage = voice,
                                 !.image = image])
             /\ media' = media
             /\ out' = [OutcomeOf(request, "created")
                          EXCEPT !.report = ObjectIds[request.n]]
             /\ req' = [req EXCEPT ![p] = Idle]
  /\ UNCHANGED <<res, now, budget, log, departments, scoreVars, municipalities>>

\* the media a report refers to
MediaOf(doc) ==
  {doc.image, doc.voiceMessage, doc.resolutionImage} \ {NoHandle}

\* deleteReport, served without another request in between: the media of the
\* report are deleted from the media store, the outcome of each deletion
\* being ignored, then the report is deleted
deleteReport(reportId) ==
  /\ budget > 0
  /\ budget' = budget - 1
  /\ LET n == Arriving
         found == {r \in DOMAIN reports : reports[r].reportId = reportId}
     IN IF found = {}
        THEN /\ out' = Outcome(n, "NotFound", None, NoPoint)
             /\ UNCHANGED <<reports, media>>
        ELSE \E r \in found :
               /\ \E destroyed \in SUBSET MediaOf(reports[r]) :
                    media' = media \ destroyed
               /\ reports' = [x \in DOMAIN reports \ {r} |-> reports[x]]
               /\ out' = [Outcome(n, "deleted", reports[r].category, NoPoint)
                            EXCEPT !.report = r, !.uploaded = MediaOf(reports[r])]
  /\ UNCHANGED <<req, res, now, log, departments, scoreVars, municipalities>>

\* the administrator of the department and municipality handlers
Administrator == [id |-> "a1", role |-> "admin", department |-> None]

\* deleteDepartment, served without another request in between
deleteDepartment(departmentId) ==
  /\ budget > 0
  /\ budget' = budget - 1
  /\ LET found == departmentId \in DOMAIN departments
         reportCount == Cardinality({r \in DOMAIN reports :
                                       reports[r].department = departmentId})
         activeStaffCount ==
           Cardinality({m \in departments[departmentId].staffMembers : m.isActive})
         code == IF ~found THEN "NotFound"
                 ELSE IF reportCount > 0 \/ activeStaffCount > 0 THEN "BadRequest"
                 ELSE "ok"
     IN /\ res' = Response("deleteDepartment", Administrator, code, TRUE)
        /\ IF code # "ok"
           THEN UNCHANGED <<departments, municipalities>>
           ELSE /\ municipalities' =
                     [m \in DOMAIN municipalities |->
                        IF m = departments[departmentId].municipality
                        THEN [municipalities[m] EXCEPT
                                !.departments = @ \ {departmentId}]
                        ELSE municipalities[m]]
                /\ departments' =
                     [d \in DOMAIN departments \ {departmentId} |-> departments[d]]
  /\ UNCHANGED <<reports, req, now, log, scoreVars, media, out>>

\* removeDepartmentFromMunicipality, served without another request in between
removeDepartmentFromMunicipality(municipalityId, departmentId) ==
  /\ budget > 0
  /\ budget' = budget - 1
  /\ LET reportCount == Cardinality({r \in DOMAIN reports :
                                       reports[r].department = departmentId})
         code == IF municipalityId \notin DOMAIN municipalities THEN "NotFound"
                 ELSE IF departmentId \notin DOMAIN departments THEN "NotFound"
                 ELSE IF reportCount > 0 THEN "BadRequest"
                 ELSE "ok"
     IN /\ res' = Response("removeDepartmentFromMunicipality", Administrator,
                           code, TRUE)
        /\ IF code # "ok"
           THEN UNCHANGED <<departments, municipalities>>
           ELSE /\ municipalities' =
                     [municipalities EXCEPT
                        ![municipalityId].departments = @ \ {departmentId}]
                /\ departments' =
                     [d \in DOMAIN departments \ {departmentId} |-> departments[d]]
  /\ UNCHANGED <<reports, req, now, log, scoreVars, media, out>>

\* deleteMunicipality, served without another request in between
deleteMunicipality(municipalityId) ==
  /\ budget > 0
  /\ budget' = budget - 1
  /\ LET reportCount == Cardinality({r \in DOMAIN reports :
                                       reports[r].municipality = municipalityId})
         code == IF municipalityId \notin DOMAIN municipalities THEN "NotFound"
                 ELSE IF reportCount > 0 THEN "BadRequest"
                 ELSE "ok"
     IN /\ res' = Response("deleteMunicipality", Administrator, code, TRUE)
        /\ IF code # "ok"
           THEN UNCHANGED <<departments, municipalities>>
           ELSE /\ departments' =
                     [d \in {x \in DOMAIN departments :
                               departments[x].municipality # municipalityId}
                        |-> departments[d]]
                /\ municipalities' =
                     [m \in DOMAIN municipalities \ {municipalityId} |->
                        municipalities[m]]
  /\ UNCHANGED <<reports, req, now, log, scoreVars, media, out>>

\* time passes
Tick ==
  /\ \E t \in Instants : t > now /\ now' = t
  /\ UNCHANGED <<reports, req, res, budget, log, departments, scoreVars, intakeVars>>

\* ----------------------------------------------------------- scorer harness
\* no createReport request answered yet, nothing in the media store
NoOutcome ==
  [n |-> 0, code |-> "none", category |-> None, point |-> -1,
   geocoded |-> FALSE,
   reply |-> [kind |-> "none", state_district |-> <<>>, county |-> <<>>,
              district |-> <<>>],
   method |-> None, municipality |-> None, report |-> None, uploaded |-> {},
   coordinates |-> [form |-> "missing", elements |-> <<>>]]

InitIntakeIdle ==
  /\ media = {}
  /\ out = NoOutcome
  /\ municipalities = NewMunicipalities

NoCall == [urgency |-> None, upvoteCount |-> -1, age |-> 0]

\* a document calls this.calculatePriority()
ScoreCall ==
  /\ call # NoCall
  /\ ret = <<>>
  /\ ret' = <<calculatePriority(call.urgency, call.upvoteCount, call.age)>>
  /\ UNCHANGED <<call, prev, storeVars, intakeVars>>

\* the document gains upvotes and is scored again
ScoreMoreVotes ==
  /\ ret # <<>>
  /\ prev = <<>>
  /\ \E n \in (call.upvoteCount + 1)..MaxCount :
       call' = [call EXCEPT !.upvoteCount = n]
  /\ prev' = <<[call |-> call, ret |-> ret[1]]>>
  /\ ret' = <<>>
  /\ UNCHANGED <<storeVars, intakeVars>>

\* ---------------------------------------------------------- specifications
NoResponse ==
  [op |-> "none", user |-> None, code |-> "none", serial |-> TRUE,
   again |-> FALSE]

\* the store holding one report as createReport leaves it, no request in
\* flight, and a workload of the given size still to arrive
NoLog == [on |-> FALSE, entries |-> <<>>]

InitStore(workload) ==
  /\ \E u \in Urgencies, d \in {"d1", None} :
       reports = [r \in ReportIds |-> NewReport(u, d, 0)]
  /\ req = [p \in Procs |-> Idle]
  /\ res = NoResponse
  /\ now = 0
  /\ budget = workload
  /\ log = NoLog
  /\ departments = NewDepartments

InitScoreIdle ==
  /\ call = NoCall
  /\ ret = <<>>
  /\ prev = <<>>
  /\ InitIntakeIdle

VoteRequests(P, V) ==
  \/ \E p \in P, r \in ReportIds, u \in V : UpvoteLoad(p, r, u)
  \/ \E p \in P : UpvoteSave(p)
  \/ \E p \in P, r \in ReportIds, u \in V : RemoveLoad(p, r, u)
  \/ \E p \in P : RemoveSave(p)

VoteNext(P) == VoteRequests(P, Voters)

StatusRequests(P, A) ==
  \/ \E p \in P, r \in ReportIds, a \in A, s \in StatusInputs,
        m \in {None, "note"}, e \in BOOLEAN : StatusLoad(p, r, a, s, m, e)
  \/ \E p \in P : StatusSave(p)

StatusNext(P) == StatusRequests(P, Actors)

\* Spec: upvote, remove-upvote and status requests overlapping on one report
Init ==
  /\ \E u \in Urgencies, d \in {"d1", None} :
       reports = [r \in ReportIds |-> NewReport(u, d, 0)]
  /\ req = [p \in Procs |-> Idle]
  /\ res = NoResponse
  /\ now = 0
  /\ budget = MaxRequests
  /\ log = [on |-> TRUE, entries |-> <<>>]
  /\ departments = NewDepartments
  /\ InitScoreIdle

Next ==
  \/ VoteNext(Procs)
  \/ StatusNext(Procs)
  \/ Tick

Spec == Init /\ [][Next]_vars

\* SpecVotes: overlapping upvote and remove-upvote requests
InitVotes ==
  /\ InitStore(MaxVoteRequests)
  /\ InitScoreIdle

NextVotes ==
  \/ VoteNext(Procs)
  \/ Tick

SpecVotes == InitVotes /\ [][NextVotes]_vars

\* SpecLifecycle: status requests handled one after the other
InitLifecycle ==
  /\ InitStore(MaxStatusRequests)
  /\ InitScoreIdle

NextLifecycle ==
  \/ StatusRequests({1}, ActorsAndUnassignedStaff)
  \/ \E a \in {"a1", "a2", "s1"}, ids \in SUBSET ReportIds,
        s \in StatusInputs, m \in {None, "note"}, t \in {None, "s1"} :
       bulkUpdateReports(a, ids, s, m, t)
  \/ \E r \in ReportIds, d \in {"d1"}, t \in {None, "s1"} :
       manualAssign(r, d, t)
  \/ \E d \in {"d1", "d2"}, r \in ReportIds, t \in {"s1", "s2"} :
       assignReportToStaff(d, r, t)
  \/ \E d \in {"d1", "d2"}, r \in ReportIds, s \in DeptStatusInputs :
       DeptUpdateReportStatus(d, r, s)
  \/ Tick

SpecLifecycle == InitLifecycle /\ [][NextLifecycle]_vars

\* SpecPriority: a report that five citizens have upvoted, one after the
\* other, then upvote, remove-upvote and status requests overlapping on it
EarlierVoters == <<"v1", "v2", "v3", "v4", "v5">>

RECURSIVE UpvotedBy(_, _, _)
UpvotedBy(doc, voters, t) ==
  IF voters = <<>> THEN doc
  ELSE UpvotedBy(SaveDocument(doc, doc, addUpvote(doc, Head(voters), t), {}),
                 Tail(voters), t)

InitPriority ==
  /\ \E u \in Urgencies :
       reports = [r \in ReportIds |->
                    UpvotedBy(NewReport(u, "d1", 0), EarlierVoters, 0)]
  /\ req = [p \in Procs |-> Idle]
  /\ res = NoResponse
  /\ now = 0
  /\ budget = MaxRequests
  /\ log = NoLog
  /\ departments = NewDepartments
  /\ InitScoreIdle

NextPriority ==
  \/ VoteRequests(Procs, {"v1", "c1"})
  \/ StatusNext(Procs)
  \/ Tick

SpecPriority == InitPriority /\ [][NextPriority]_vars

\* SpecAssignee: status requests of two staff members of one department and
\* of an administrator, overlapping on one report
InitAssignee ==
  /\ InitStore(MaxRequests)
  /\ InitScoreIdle

NextAssignee ==
  \/ StatusRequests(Procs, DepartmentStaff)
  \/ Tick

SpecAssignee == InitAssignee /\ [][NextAssignee]_vars

\* SpecDepartment: reports assigned to a department automatically or by an
\* administrator, and the department's own status updates, one after another
InitDepartment ==
  /\ InitStore(MaxDeptRequests)
  /\ InitScoreIdle

NextDepartment ==
  \/ \E r \in ReportIds, c \in {"Sanitation", "Other"}, m \in {"m1", "m2"} :
       autoAssignByCategory(r, c, m)
  \/ \E r \in ReportIds, d \in {"d1"}, t \in {None, "s1"} :
       manualAssign(r, d, t)
  \/ \E d \in {"d1", "d2"}, r \in ReportIds, s \in DeptStatusInputs :
       DeptUpdateReportStatus(d, r, s)
  \/ Tick

SpecDepartment == InitDepartment /\ [][NextDepartment]_vars

\* SpecScore: calculatePriority on every input of the harness, or the upvote
\* ledger recomputing the stored priority
InitScore ==
  \/ /\ \E u \in UrgencyInputs, n \in 0..MaxCount, a \in AgeSamples :
          call = [urgency |-> u, upvoteCount |-> n, age |-> a]
     /\ ret = <<>>
     /\ prev = <<>>
     /\ reports = [r \in ReportIds |-> NewReport("medium", None, 0)]
     /\ req = [p \in Procs |-> Idle]
     /\ res = NoResponse
     /\ now = 0
     /\ budget = 0
     /\ log = NoLog
     /\ departments = NewDepartments
     /\ InitIntakeIdle
  \/ /\ InitStore(MaxRequests)
     /\ InitScoreIdle

NextScore ==
  \/ ScoreCall
  \/ ScoreMoreVotes
  \/ VoteNext(Procs)
  \/ Tick

SpecScore == InitScore /\ [][NextScore]_vars

\* SpecFeedback: feedback requests overlapping status requests of an admin,
\* on a report as created or as resolved by the admin
FeedbackNext(P) ==
  \/ \E p \in P, r \in ReportIds, u \in Voters, n \in RatingInputs,
        f \in FeedbackInputs : FeedbackLoad(p, r, u, n, f)
  \/ \E p \in P : FeedbackSave(p)

ResolvedReport(doc, user, t) ==
  SaveDocument(doc, doc, ApplyStatusUpdate(doc, user, "resolved", None, FALSE, t),
               FreshPaths("resolved", FALSE))

InitFeedback ==
  /\ \E u \in {"low", "critical"}, d \in {"d1", None}, done \in BOOLEAN :
       reports = [r \in ReportIds |->
                    IF done
                    THEN ResolvedReport(NewReport(u, d, 0),
                                        [id |-> "a1", role |-> "admin",
                                         department |-> None], 0)
                    ELSE NewReport(u, d, 0)]
  /\ req = [p \in Procs |-> Idle]
  /\ res = NoResponse
  /\ now = 0
  /\ budget = MaxFeedbackRequests
  /\ log = NoLog
  /\ departments = NewDepartments
  /\ InitScoreIdle

NextFeedback ==
  \/ FeedbackNext(Procs)
  \/ StatusRequests(Procs, {a \in Actors : a.role = "admin"})
  \/ Tick

SpecFeedback == InitFeedback /\ [][NextFeedback]_vars

\* SpecIntake: createReport requests served one after the other on an empty
\* Report collection
InitIntake ==
  /\ reports = [r \in {} |-> None]
  /\ req = [p \in Procs |-> Idle]
  /\ res = NoResponse
  /\ now = 0
  /\ budget = MaxCreateRequests
  /\ log = NoLog
  /\ departments = NewDepartments
  /\ InitScoreIdle

\* the requests followed: complete ones, and one for each missing field
CreateRequests ==
  {[title |-> TRUE, category |-> c, urgency |-> u, description |-> d,
    files |-> f, coordinates |-> OnEquator(p)] :
      c \in CategoryInputs \ {None, "Traffic"}, u \in {None, "urgent"},
      d \in BOOLEAN, f \in SUBSET {"image", "voiceMessage"},
      p \in PointInputs \ {NoPoint, 90000}}
    \cup {[title |-> t, category |-> c, urgency |-> "critical",
           description |-> TRUE, files |-> {"image"},
           coordinates |-> OnEquator(p)] :
            t \in BOOLEAN, c \in {None, "Traffic"}, p \in {NoPoint, 90000}}

NextIntake ==
  \E q \in CreateRequests :
    createReport("c1", q.title, q.category, q.urgency, q.description, q.files,
                 q.coordinates)

SpecIntake == InitIntake /\ [][NextIntake]_vars

\* SpecCoordinates: createReport requests with coordinates of every form, one
\* after the other
CoordinateRequests ==
  {[files |-> f, coordinates |-> c] :
     f \in SUBSET {"image", "voiceMessage"},
     c \in CoordinateInputs \cup {NoCoordinates, OnEquator(10000)}}

NextCoordinates ==
  \E q \in CoordinateRequests :
    createReport("c1", TRUE, "Sanitation", None, TRUE, q.files, q.coordinates)

SpecCoordinates == InitIntake /\ [][NextCoordinates]_vars

\* SpecRegistry: createReport requests overlapping each other and the
\* requests that delete reports, departments and municipalities
InitRegistry ==
  /\ reports = [r \in {} |-> None]
  /\ req = [p \in Procs |-> Idle]
  /\ res = NoResponse
  /\ now = 0
  /\ budget = MaxIntakeRequests
  /\ log = NoLog
  /\ departments = NewDepartments
  /\ InitScoreIdle

\* the createReport requests followed: near municipality m1 or m2, with or
\* without a description, a voice message and an image
RegistryRequests ==
  {[category |-> c.category, description |-> d, files |-> f,
    coordinates |-> OnEquator(c.point)] :
      c \in {[category |-> "Sanitation", point |-> 10000],
             [category |-> "Parks", point |-> 50000]},
      d \in BOOLEAN,
      f \in {{}, {"voiceMessage"}, {"image", "voiceMessage"}}}

\* req.params.reportId of the deleteReport requests followed
ReportIdInputs ==
  {<<"S", "A", "N", "I", "-", "0", "0", k>> : k \in {"1", "2"}}
    \cup {<<"P", "A", "R", "K", "-", "0", "0", "1">>}

NextRegistry ==
  \/ \E p \in Procs, q \in RegistryRequests :
       CreateStart(p, "c1", TRUE, q.category, None, q.description, q.files,
                   q.coordinates)
  \/ \E p \in Procs : CreateResolve(p)
  \/ \E p \in Procs : CreateCommit(p)
  \/ \E reportId \in ReportIdInputs : deleteReport(reportId)
  \/ \E d \in {"d1", "d3"} : deleteDepartment(d)
  \/ \E m \in {"m1", "m2"}, d \in {"d1", "d3"} :
       removeDepartmentFromMunicipality(m, d)
  \/ \E m \in {"m1", "m2"} : deleteMunicipality(m)

SpecRegistry == InitRegistry /\ [][NextRegistry]_vars

\* ------------------------------------------------------------------ claims

\* C7: for every urgency (also a missing or unknown one), every upvoteCount
\* and every age, calculatePriority returns a priority in 1..5 and a finalScore
\* in [1.0, 5.0]; the priority and finalScore stored on a report are in the
\* same ranges in every reachable state.
C7_PriorityInRange ==
  /\ ret # <<>> =>
       /\ ret[1].priority \in 1..5
       /\ ret[1].finalScore >= 1 * Scale /\ ret[1].finalScore <= 5 * Scale
  /\ \A r \in DOMAIN reports :
       /\ reports[r].priority \in 1..5
       /\ reports[r].finalScore >= 1 * Scale
       /\ reports[r].finalScore <= 5 * Scale

\* the cap is reached: critical urgency with 50 or more upvotes scores 5
C7_Witness ==
  /\ ret # <<>>
  /\ call.urgency = "critical"
  /\ call.upvoteCount >= 50
  /\ ret[1].priority = 5

\* the scorer as the specification states it
ReferenceUrgency(urgency) ==
  CASE urgency = "low" -> 150
    [] urgency = "medium" -> 250
    [] urgency = "high" -> 400
    [] urgency = "critical" -> 500
    [] OTHER -> 250

ReferenceCommunity(n) ==
  CASE n = 0 -> 0
    [] n \in 1..4 -> 20
    [] n \in 5..9 -> 50
    [] n \in 10..19 -> 100
    [] n \in 20..49 -> 150
    [] OTHER -> 200

ReferenceRecency(ageHours) ==
  CASE ageHours < 24 -> 20
    [] ageHours >= 24 /\ ageHours < 168 -> 10
    [] OTHER -> 0

ReferenceRaw(c) ==
  LET sum == ReferenceUrgency(c.urgency) + ReferenceCommunity(c.upvoteCount)
               + ReferenceRecency(c.age)
      atMost5 == IF sum < 500 THEN sum ELSE 500
  IN IF atMost5 > 100 THEN atMost5 ELSE 100

\* the integer nearest to raw / 100, a half going up
ReferencePriority(c) ==
  CHOOSE n \in 0..6 : 100 * n - 50 <= ReferenceRaw(c) /\ ReferenceRaw(c) < 100 * n + 50

\* the multiple of a tenth nearest to raw, a half going up
ReferenceFinalScore(c) ==
  CHOOSE f \in {10 * k : k \in 0..60} :
    f - 5 <= ReferenceRaw(c) /\ ReferenceRaw(c) < f + 5

\* C8: calculatePriority equals the reference scorer on every input: urgency
\* score plus community boost plus recency boost, clamped to [1.0, 5.0], the
\* priority rounded half-up and finalScore rounded to one decimal;
\* critical / 0 votes / 0 days gives 5 and low / 7 votes / 10 days gives 2.
C8_MatchesReference ==
  ret # <<>> =>
    /\ ret[1].priority = ReferencePriority(call)
    /\ ret[1].finalScore = ReferenceFinalScore(call)
    /\ (call.urgency = "critical" /\ call.upvoteCount = 0 /\ call.age = 0)
         => ret[1].priority = 5
    /\ (call.urgency = "low" /\ call.upvoteCount = 7 /\ call.age = 240)
         => ret[1].priority = 2

\* the scenario low / 7 votes / 10 days has been scored
C8_Witness ==
  /\ ret # <<>>
  /\ call = [urgency |-> "low", upvoteCount |-> 7, age |-> 240]
  /\ ret[1].priority = 2
  /\ ret[1].finalScore = 200

\* C9: with urgency and age fixed, the priority and the finalScore returned
\* by calculatePriority are non-decreasing in upvoteCount.
C9_MonotoneInUpvotes ==
  (prev # <<>> /\ ret # <<>>) =>
    /\ prev[1].call.upvoteCount <= call.upvoteCount
    /\ prev[1].ret.priority <= ret[1].priority
    /\ prev[1].ret.finalScore <= ret[1].finalScore

\* a larger count has crossed a tier and raised the priority
C9_Witness ==
  /\ prev # <<>>
  /\ ret # <<>>
  /\ prev[1].call.upvoteCount = 9
  /\ call.upvoteCount = 10
  /\ prev[1].ret.priority < ret[1].priority

\* the lifecycle graph of the specification, in the status values of the
\* code: in-progress is in_progress, acknowledged is another name of assigned
LifecycleName(status) ==
  IF status = "acknowledged" THEN "assigned" ELSE status

LifecycleStates ==
  {"pending_assignment", "assigned", "in-progress", "resolved", "rejected"}

TerminalStates == {"resolved", "rejected"}

LifecycleEdges ==
  { <<"pending_assignment", "assigned">>, <<"assigned", "in-progress">>,
    <<"in-progress", "resolved">> }
    \cup { <<s, "rejected">> : s \in LifecycleStates \ TerminalStates }

\* a status request with a target status for report r is accepted in this step
StatusRequestAccepted(r) ==
  \E p \in Procs :
    /\ req[p] = Idle
    /\ req'[p] # Idle
    /\ req'[p].op = "updateReportStatus"
    /\ req'[p].report = r
    /\ req'[p].status # None

\* C1 (as claimed): resolved and rejected are terminal: a status-changing
\* request on a report whose stored status is resolved or rejected is not
\* accepted, and no operation changes the stored status of such a report.
C1_TerminalIsFinal ==
  [][\A r \in DOMAIN reports :
       reports[r].status \in TerminalStates =>
         /\ ~StatusRequestAccepted(r)
         /\ reports'[r].status = reports[r].status]_vars

\* C2 (as claimed): the stored status is always one of the five lifecycle
\* states and every change of it follows an edge of the lifecycle graph.
C2_FollowsLifecycle ==
  [][\A r \in DOMAIN reports :
       /\ LifecycleName(reports[r].status) \in LifecycleStates
       /\ LifecycleName(reports'[r].status) \in LifecycleStates
       /\ reports'[r].status # reports[r].status =>
            <<LifecycleName(reports[r].status),
              LifecycleName(reports'[r].status)>> \in LifecycleEdges]_vars

\* C3 (as claimed): each voter identity appears at most once in a report's
\* upvotes after any interleaving of upvoteReport and removeUpvote requests,
\* also two overlapping upvoteReport requests by the same voter.
C3_VoterAtMostOnce ==
  \A r \in DOMAIN reports :
    \A i, j \in 1..Len(reports[r].upvotes) :
      reports[r].upvotes[i] = reports[r].upvotes[j] => i = j

\* C4 (as claimed): the stored upvoteCount equals the number of entries of
\* the stored upvotes in every reachable state, also when upvoteReport and
\* removeUpvote requests by different voters overlap.
C4_CountEqualsLength ==
  \A r \in DOMAIN reports :
    reports[r].upvoteCount = Len(reports[r].upvotes)

\* the step is the save of a removeUpvote request of slot p that saw the
\* document as it is stored
SerialRemove(p) ==
  /\ req[p] # Idle
  /\ req[p].op = "removeUpvote"
  /\ IsSerial(p)
  /\ RemoveSave(p)

\* C10: removeUpvote called twice in a row for the same voter succeeds both
\* times and the second call leaves upvoteCount and upvotes as the first left
\* them; removing a vote that does not exist is not an error, and upvoteCount
\* never becomes negative.
C10_RemoveIdempotent ==
  [][\A p \in Procs :
       LET r == req[p].report
           u == req[p].user.id
       IN /\ SerialRemove(p) =>
               /\ res'.code = "ok"
               /\ ~HasUpvoted(reports'[r], u)
               /\ reports'[r].upvoteCount >= 0
          /\ (SerialRemove(p) /\ res.op = "removeUpvote" /\ res.user = u
                /\ res.code = "ok" /\ res.serial) =>
               /\ res'.code = "ok"
               /\ res'.again
               /\ reports'[r].upvotes = reports[r].upvotes
               /\ reports'[r].upvoteCount = reports[r].upvoteCount]_vars

\* a second removeUpvote in a row by the same voter has been answered
C10_Witness ==
  /\ res.op = "removeUpvote"
  /\ res.code = "ok"
  /\ res.again
  /\ \E r \in DOMAIN reports : reports[r].upvotes = <<>>

\* a request served alone on a document at time t: its checks, its changes
\* and its save with no other request in between
ServedAlone(doc, e, t) ==
  CASE e.op = "upvoteReport" ->
         IF UpvoteCheck(doc, e.user.id) # "ok" THEN doc
         ELSE SaveDocument(doc, doc, addUpvote(doc, e.user.id, t), {})
    [] e.op = "removeUpvote" ->
         SaveDocument(doc, doc, removeUpvote(doc, e.user.id, t), {})
    [] e.op = "updateReportStatus" ->
         IF StatusCheck(doc, e.user, e.status) # "ok" THEN doc
         ELSE SaveDocument(doc, doc,
                ApplyStatusUpdate(doc, e.user, e.status, e.message,
                                  e.evidence, t),
                FreshPaths(e.status, e.evidence))

\* the fields whose read-modify-write must be serialized
MutableFields(doc) ==
  [upvotes |-> doc.upvotes, upvoteCount |-> doc.upvoteCount,
   priority |-> doc.priority, status |-> doc.status,
   assignedTo |-> doc.assignedTo]

\* the states the two logged requests can leave when served one after the
\* other, in either order, at any two instants up to now
SerialOutcomes(base) ==
  { MutableFields(ServedAlone(ServedAlone(base, log.entries[i], t1),
                              log.entries[3 - i], t2)) :
      <<i, t1, t2>> \in
        { x \in {1, 2} \X Instants \X Instants :
            x[2] <= x[3] /\ x[3] <= now } }

\* C5 (as claimed): two overlapping operations on the same report leave its
\* upvotes, upvoteCount, priority, status and assignedTo in a state that some
\* serial execution of the same two operations produces.
C5_Serializable ==
  \A r \in DOMAIN reports :
    (log.on /\ Len(log.entries) = 2 /\ \A p \in Procs : req[p] = Idle) =>
      MutableFields(reports[r]) \in
        SerialOutcomes(NewReport(reports[r].urgency, reports[r].department,
                                 reports[r].date))

\* C6 (as claimed): once a report's stored status is resolved its upvotes
\* never gain an entry, also when the upvote request overlaps the status
\* change that resolves the report.
C6_NoUpvoteOnceResolved ==
  [][\A r \in DOMAIN reports :
       reports[r].status = "resolved" =>
         Len(reports'[r].upvotes) <= Len(reports[r].upvotes)]_vars

\* an addFeedback request on report r is accepted in this step (it passed the
\* checks and goes on to assign and save)
FeedbackAccepted(p) ==
  /\ req[p] = Idle
  /\ req'[p] # Idle
  /\ req'[p].op = "addFeedback"

\* the save of an addFeedback request on report r reaches the store
FeedbackCommitted(p, r) ==
  /\ req[p] # Idle
  /\ req[p].op = "addFeedback"
  /\ req[p].report = r
  /\ req'[p] = Idle

\* C15 (as claimed): a status request by a staff actor is accepted only on
\* a report whose department is set and equals the actor's own department;
\* a staff actor never transitions a report that has no department.
C15_StaffOwnDepartmentOnly ==
  [][\A p \in Procs :
       (/\ req[p] = Idle
        /\ req'[p] # Idle
        /\ req'[p].op = "updateReportStatus"
        /\ req'[p].user.role = "staff") =>
         LET d == reports[req'[p].report].department
         IN d # None /\ d = req'[p].user.department]_vars

\* C16 (as claimed): addFeedback is accepted only from the report's reporter
\* on a resolved report, and rating and feedback change only when such a
\* request is saved on a report whose stored status is resolved.
C16_FeedbackOnlyOnResolved ==
  [][/\ \A p \in Procs :
          FeedbackAccepted(p) =>
            /\ reports[req'[p].report].reportedBy = req'[p].user.id
            /\ reports[req'[p].report].status = "resolved"
     /\ \A r \in DOMAIN reports :
          (reports'[r].rating # reports[r].rating
             \/ reports'[r].feedback # reports[r].feedback) =>
            /\ reports[r].status = "resolved"
            /\ \E p \in Procs :
                 /\ FeedbackCommitted(p, r)
                 /\ req[p].user.id = reports[r].reportedBy]_vars

\* C17 (as claimed): an addFeedback request whose rating is supplied and
\* outside 1..5 (0, 6) is not accepted and changes neither rating nor
\* feedback; a stored rating is absent or within 1..5.
C17_BadRatingRejected ==
  [][/\ \A p \in Procs :
          FeedbackAccepted(p) => req'[p].rating \in {NoRating} \cup 1..5
     /\ \A r \in DOMAIN reports :
          /\ reports'[r].rating \in {NoRating} \cup 1..5
          /\ \A p \in Procs :
               (FeedbackCommitted(p, r)
                  /\ req[p].rating \notin {NoRating} \cup 1..5) =>
                 /\ reports'[r].rating = reports[r].rating
                 /\ reports'[r].feedback = reports[r].feedback]_vars

\* C18 (as claimed): in every reachable state a report's resolvedDate is set
\* if and only if its stored status is resolved.
C18_ResolvedDateIffResolved ==
  \A r \in DOMAIN reports :
    reports[r].resolvedDate # NoDate <=> reports[r].status = "resolved"

\* C19 (as claimed): a status request by an actor who passes the permission
\* check is rejected with InvalidStatus, leaving the report as it is, exactly
\* when its target value is no lifecycle status value; every lifecycle
\* status value is accepted as a target.
C19_RejectsExactlyNonLifecycle ==
  [][(log.on /\ Len(log'.entries) = Len(log.entries) + 1) =>
       LET e == log'.entries[Len(log'.entries)]
       IN (/\ e.op = "updateReportStatus"
           /\ e.status # None
           /\ ~(e.user.role = "staff"
                  /\ reports[e.report].department # e.user.department)) =>
            IF e.status \in LifecycleStates \cup {"acknowledged"}
            THEN \E p \in Procs : req[p] = Idle /\ req'[p] # Idle
            ELSE /\ res'.code = "InvalidStatus"
                 /\ req' = req
                 /\ reports' = reports]_vars

\* C20 (as claimed): manual assignment of a report that is in
\* pending_assignment to a department (and optionally a staff member) moves
\* the report to assigned, records the department and the staff member on
\* the report and sets the report's assignmentType to manual.
C20_ManualAssignment ==
  [][\A d \in DOMAIN departments :
       (Len(departments'[d].reports) = Len(departments[d].reports) + 1) =>
         LET entry == departments'[d].reports[Len(departments'[d].reports)]
             r == entry.reportId
         IN (entry.assignmentType = "manual"
               /\ reports[r].status = "pending_assignment") =>
              /\ reports'[r].status = "assigned"
              /\ reports'[r].department = d
              /\ reports'[r].assignmentType = "manual"
              /\ entry.assignedTo # None =>
                   reports'[r].assignedTo = entry.assignedTo]_vars


\* route(municipality, category) of the specification: no department for
\* category Other, else a department of the municipality that lists the
\* category, else none
RouteOf(municipality, category) ==
  LET listing == {d \in DOMAIN departments :
                    /\ departments[d].municipality = municipality
                    /\ category \in departments[d].categories}
  IN IF category = "Other" \/ listing = {} THEN {None} ELSE listing

\* C11: immediately after a successful createReport the report's routing is
\* route(municipality, category): with a department of the resolved
\* municipality that lists the category the report is assigned, automatic,
\* and has that department; for category Other and when no department lists
\* the category it is pending_assignment, pending, and has no department.
C11_RoutingAtCreation ==
  out.code = "created" =>
    LET doc == reports[out.report]
    IN /\ doc.municipality = out.municipality
       /\ doc.category = out.category
       /\ doc.department \in RouteOf(out.municipality, out.category)
       /\ IF doc.department = None
          THEN doc.status = "pending_assignment" /\ doc.assignmentType = "pending"
          ELSE doc.status = "assigned" /\ doc.assignmentType = "automatic"

\* a report of category Other created in a municipality with a department
\* that lists Other, and a report routed to a department
C11_Witness ==
  /\ out.code = "created"
  /\ out.category = "Other"
  /\ out.municipality = "m2"
  /\ reports[out.report].department = None
  /\ \E r \in DOMAIN reports : reports[r].assignmentType = "automatic"

\* the district the specification takes from a geocoder answer: of the first
\* result, the state district, else the county, else the district
DistrictOfReply(reply) ==
  IF reply.kind # "results" THEN NoText
  ELSE IF reply.state_district # NoText THEN reply.state_district
  ELSE IF reply.county # NoText THEN reply.county
  ELSE reply.district

\* a stored district matches a name case-insensitively (substring or whole)
LowerText(text) == [i \in 1..Len(text) |-> ToLower(text[i])]

DistrictMatches(stored, name) ==
  /\ name # NoText
  /\ \E i \in 1..Len(stored), j \in 1..Len(stored) :
       SubSeq(LowerText(stored), i, j) = LowerText(name)

C13_GeocoderFailureAbsorbed ==
  (out.geocoded /\ out.reply.kind \in {"error", "timeout"}) =>
    /\ out.code = "NoJurisdictionFound"
    /\ out.municipality = None
    /\ out.report = None
    /\ findNearestMunicipality(out.point) = {}

C13_Witness ==
  /\ out.geocoded
  /\ out.reply.kind = "timeout"
  /\ out.code = "NoJurisdictionFound"
  /\ out.point = 50001

\* C14 (as claimed): a createReport request that resolves no jurisdiction
\* fails with NoJurisdictionFound, leaves the Report collection unchanged,
\* and every media handle uploaded during the request has been released from
\* the media store when the request completes.
C14_NoJurisdictionReleasesMedia ==
  [][(out'.n # out.n /\ out'.code = "NoJurisdictionFound") =>
       /\ reports' = reports
       /\ out'.uploaded \cap media' = {}]_vars


\* C26 (as claimed): whenever a report's stored status is resolved, its
\* resolutionTime is set, is not negative and is the hours from its creation
\* to its resolvedDate, whichever operation resolved it.
C26_ResolutionTimeWhenResolved ==
  \A r \in DOMAIN reports :
    reports[r].status = "resolved" =>
      /\ reports[r].resolutionTime # NoDate
      /\ reports[r].resolutionTime >= 0
      /\ reports[r].resolutionTime = reports[r].resolvedDate - reports[r].date

\* C30 (as claimed): a department's pendingReports, inProgressReports and
\* completedReports each count reports of the department that are in that
\* state: none is negative, none exceeds the number of reports the department
\* lists, and their sum does not exceed totalReports.
C30_CountersCountReports ==
  \A d \in DOMAIN departments :
    LET stats == departments[d].stats
        listed == Len(departments[d].reports)
    IN /\ \A n \in {stats.pendingReports, stats.inProgressReports,
                    stats.completedReports} : n >= 0 /\ n <= listed
       /\ stats.pendingReports + stats.inProgressReports
            + stats.completedReports <= stats.totalReports

\* C27 (as claimed): a saved updateReportStatus leaves the stored assignedTo
\* as it was, except that it becomes the acting user when it was unset and
\* the actor's role is staff; a set assignedTo is never overwritten and a
\* request of an admin never changes it.
C27_AssignsOnlyUnassigned ==
  [][\A p \in Procs :
       (/\ req[p] # Idle
        /\ req[p].op = "updateReportStatus"
        /\ req'[p] = Idle) =>
         LET r == req[p].report
             before == reports[r].assignedTo
         IN reports'[r].assignedTo =
              IF before = None /\ req[p].user.role = "staff"
              THEN req[p].user.id ELSE before]_vars

\* C25 (as claimed): in every reachable state the stored priority of a
\* report is what the scorer returns for its stored urgency, its stored
\* upvoteCount and its age at some instant up to now (the most recent
\* recompute), also when votes overlap other saves of the report.
C25_PriorityMatchesStoredCount ==
  \A r \in DOMAIN reports :
    \E t \in Instants :
      /\ reports[r].date <= t
      /\ t <= now
      /\ reports[r].priority =
           calculatePriority(reports[r].urgency, reports[r].upvoteCount,
                             t - reports[r].date).priority

\* the coordinates are exactly two finite numbers, the longitude within
\* [-180, 180] degrees and the latitude within [-90, 90] degrees
TwoNumbersWithinBounds(coordinates) ==
  /\ coordinates.form \in {"array", "json array"}
  /\ Len(coordinates.elements) = 2
  /\ \A i \in 1..2 : coordinates.elements[i].kind \in {"number", "numeral"}
  /\ -MaxLongitude <= coordinates.elements[1].value
  /\ coordinates.elements[1].value <= MaxLongitude
  /\ -MaxLatitude <= coordinates.elements[2].value
  /\ coordinates.elements[2].value <= MaxLatitude

\* C24 (as claimed): a createReport request whose coordinates are not exactly
\* two finite numbers with the longitude in [-180, 180] and the latitude in
\* [-90, 90] is answered BadRequest, with no report and no medium stored or
\* uploaded.
C24_OnlyBoundedCoordinates ==
  [][(out'.n # out.n /\ ~TwoNumbersWithinBounds(out'.coordinates)) =>
       /\ out'.code = "BadRequest"
       /\ reports' = reports
       /\ media' = media
       /\ out'.uploaded = {}]_vars

\* a reportId of the form the specification gives: the first four letters of
\* the category in upper case, a hyphen, and a positive sequence number
\* padded with zeros to three digits
WellFormedReportId(doc) ==
  LET id == doc.reportId
      letters == CategoryLetters[doc.category]
  IN /\ Len(id) = 8
     /\ \A i \in 1..4 : id[i] = ToUpper(letters[i])
     /\ id[5] = "-"
     /\ \A i \in 6..8 : \E k \in 1..10 : id[i] = DigitChars[k]
     /\ SubSeq(id, 6, 8) # <<"0", "0", "0">>

\* C21: no two stored reports share a reportId, and every stored reportId is
\* the first four letters of the report's category in upper case, a hyphen
\* and a zero-padded sequence number, after any interleaving of createReport
\* and deleteReport.
C21_UniqueWellFormedIds ==
  /\ \A a \in DOMAIN reports, b \in DOMAIN reports :
       a # b => reports[a].reportId # reports[b].reportId
  /\ \A r \in DOMAIN reports : WellFormedReportId(reports[r])

\* two reports of one category stored, and a third createReport, its voice
\* message uploaded, refused by the unique index
C21_Witness ==
  /\ \E a \in DOMAIN reports, b \in DOMAIN reports :
       /\ a # b
       /\ reports[a].category = reports[b].category
  /\ out.code = "ServerError"
  /\ out.municipality # None
  /\ out.category = "Sanitation"
  /\ <<out.n, "voiceMessage">> \in out.uploaded

\* C22 (as claimed): after deleteReport succeeds the report is not stored and
\* every medium it referred to has been released from the media store, also
\* when a deletion in the media store fails.
C22_DeleteReleasesMedia ==
  out.code = "deleted" =>
    /\ out.report \notin DOMAIN reports
    /\ out.uploaded \cap media = {}

\* C23: every stored report has a description or a voice message, and no
\* createReport request with neither a description nor a voice file gets past
\* the validation of the body.
C23_DescriptionOrVoice ==
  /\ \A r \in DOMAIN reports :
       reports[r].description \/ reports[r].voiceMessage # NoHandle
  /\ \A p \in Procs :
       (req[p] # Idle /\ req[p].op = "createReport") =>
         (req[p].description \/ "voiceMessage" \in req[p].files)

\* a request without a description whose voice file was not uploaded is
\* refused by Report.create (no report is stored, so no reportId is taken)
C23_Witness ==
  /\ reports = [r \in {} |-> None]
  /\ out.code = "ServerError"
  /\ out.municipality # None
  /\ out.uploaded = {}

\* C28 (as claimed): in every reachable state the reportId generateReportId
\* produces for a category, and the one it produced for a request in
\* flight, is held by no stored report.
C28_GeneratedIdIsFree ==
  /\ \A c \in {"Sanitation", "Parks"} : ~DuplicateKey(generateReportId(c))
  /\ \A p \in Procs :
       (req[p] # Idle /\ req[p].op = "createReport") =>
          ~DuplicateKey(req[p].reportId)

\* C29 (as claimed): the municipality of every stored report, and its
\* department when it has one, are stored.
C29_ReferencesExist ==
  \A r \in DOMAIN reports :
    /\ reports[r].municipality \in DOMAIN municipalities
    /\ reports[r].department # None =>
         reports[r].department \in DOMAIN departments

====
